---- MODULE Spec2Model ----
(***************************************************************************)
(* A model of dkeyczar's key-material core (keydata.go): the symmetric     *)
(* AES-CBC + HMAC-SHA1 envelope (Encrypt / Decrypt), the six version       *)
(* loaders (newAesKeys, newHmacKeys, newDsaPublicKeys, newDsaKeys,         *)
(* newRsaPublicKeys, newRsaKeys) and the RSA private key's Decrypt.        *)
(*                                                                         *)
(* Bytes are the integers 0..255 and byte slices are sequences.  The       *)
(* library primitives (AES, SHA-1, HMAC, OAEP) are replaced by small       *)
(* deterministic stand-ins that keep the properties the code relies on:    *)
(* the block cipher is a keyed permutation of 16-byte blocks, the MAC is   *)
(* a keyed 20-byte digest that changes when one byte of the message        *)
(* changes.  A Go run-time panic is the result kind "panic".               *)
(***************************************************************************)
EXTENDS Integers, Sequences, FiniteSets, TLC

VARIABLES
    ak,       \* the symmetric key in use (aesKey), noKey before it is built
    ePlain,   \* argument of the Encrypt call
    eIv,      \* the IV that call drew from rand.Reader
    eOut,     \* what the Encrypt call returned
    dIn,      \* argument of the Decrypt call in progress
    dpc,      \* position of that Decrypt call
    dLog,     \* the steps it has performed, in order
    dPlain,   \* its local plainBytes
    dOut,     \* what it returned
    lKind,    \* the loader called
    lVersions,\* km.Versions: the version numbers, in order
    lIdx,     \* how many of them the loop has been through
    lKeys,    \* the loader's local map keys
    lFetched, \* the version numbers handed to r.GetKey, in order
    lRec,     \* what the last r.GetKey call returned
    lpc,      \* position of the loader call
    lOut,     \* what the loader returned
    rIn,      \* argument of the RSA Decrypt call
    rpc,      \* position of that call
    rOut      \* what it returned

symVars == <<ak, ePlain, eIv, eOut, dIn, dpc, dLog, dPlain, dOut>>
loadVars == <<lKind, lVersions, lIdx, lKeys, lFetched, lRec, lpc, lOut>>
rsaVars == <<rIn, rpc, rOut>>
vars == <<symVars, loadVars, rsaVars>>

----------------------------------------------------------------------------
(* Bounds of the model. *)

\* plaintexts have at most MaxPlainLen bytes
MaxPlainLen == 17
\* number of distinct outcomes of a read of rand.Reader (keys, IVs), and of
\* distinct well-formed key records
NumSeeds == 2
\* version numbers are 1..NumVersions
NumVersions == 2
\* a version list has at most MaxVersions entries
MaxVersions == 2

----------------------------------------------------------------------------
(* Program constants. *)

hmacSigLength == 20
BlockSize == 16
kzHeaderLength == 5
kzVersion == 0

ErrInvalidKeySize == "ErrInvalidKeySize"
ErrBase64Decoding == "ErrBase64Decoding"
ErrShortCiphertext == "ErrShortCiphertext"
ErrInvalidSignature == "ErrInvalidSignature"
KeySizeError == "aes.KeySizeError"

----------------------------------------------------------------------------
(* Results of a call: a normal return of (data, err), or a run-time panic. *)

Pending == [kind |-> "none", data |-> <<>>, isnil |-> TRUE, err |-> "nil"]
Ok(b) == [kind |-> "return", data |-> b, isnil |-> FALSE, err |-> "nil"]
Err(e) == [kind |-> "return", data |-> <<>>, isnil |-> TRUE, err |-> e]
Panic(m) == [kind |-> "panic", data |-> <<>>, isnil |-> TRUE, err |-> m]

----------------------------------------------------------------------------
(* Byte slices. *)

Slice(s, lo, hi) == [i \in 1..(hi - lo) |-> s[lo + i]]

\* sum of w(i) * s[i] for i in lo..hi, modulo 256, w(i) = i when weighted
RECURSIVE SumRange(_, _, _, _)
SumRange(s, lo, hi, weighted) ==
    IF lo > hi THEN 0
    ELSE IF lo = hi THEN ((IF weighted THEN lo ELSE 1) * s[lo]) % 256
    ELSE LET mid == (lo + hi) \div 2
         IN  (SumRange(s, lo, mid, weighted) + SumRange(s, mid + 1, hi, weighted)) % 256

SumBytes(s, n) == SumRange(s, 1, n, FALSE)
WSumBytes(s, n) == SumRange(s, 1, n, TRUE)

RECURSIVE XorBits(_, _, _)
XorBits(a, b, n) ==
    IF n = 0 THEN 0
    ELSE ((a + b) % 2) + 2 * XorBits(a \div 2, b \div 2, n - 1)

XorBytes(x, y) == [i \in 1..Len(x) |-> XorBits(x[i], y[i], 8)]

randBytes(n, seed) == [i \in 1..n |-> (37 * seed + 11 * i) % 256]

----------------------------------------------------------------------------
(* Library primitives (crypto/sha1, crypto/hmac, crypto/aes, crypto/cipher). *)

\* sha1: a 20-byte digest of a byte slice
sha1Sum(m) ==
    LET s1 == SumBytes(m, Len(m))
        s2 == WSumBytes(m, Len(m))
    IN  [j \in 1..20 |-> (IF j % 2 = 1 THEN s1 + j ELSE s2 + 3 * j + Len(m)) % 256]

\* hmac.NewSHA1(key) ; Write(msg) ; Sum(nil): a keyed 20-byte digest
hmacSha1(key, msg) ==
    LET s1 == SumBytes(msg, Len(msg))
        s2 == WSumBytes(msg, Len(msg))
        k1 == SumBytes(key, Len(key))
        k2 == WSumBytes(key, Len(key))
    IN  [j \in 1..hmacSigLength |->
            (IF j % 2 = 1 THEN s1 + k1 + j ELSE s2 + k2 + 3 * j + Len(msg)) % 256]

\* subtle.ConstantTimeCompare(x, y) == 1: equal lengths and equal bytes
ConstantTimeCompare(x, y) == Len(x) = Len(y) /\ x = y

\* aes.NewCipher(key): the key lengths AES accepts
AesKeyLens == {16, 24, 32}
NewCipherOk(key) == Len(key) \in AesKeyLens

\* one block through the block cipher, and back
EncryptBlock(key, b) ==
    [i \in 1..BlockSize |-> (b[i] + key[((i - 1) % Len(key)) + 1] + i) % 256]
DecryptBlock(key, c) ==
    [i \in 1..BlockSize |-> (c[i] - key[((i - 1) % Len(key)) + 1] - i) % 256]

NumBlocks(d) == Len(d) \div BlockSize
BlockAt(d, n) == Slice(d, (n - 1) * BlockSize, n * BlockSize)

\* cipher.NewCBCEncrypter(c, iv).CryptBlocks(dst, src), src a whole number of blocks
RECURSIVE CBCEncryptTo(_, _, _, _)
CBCEncryptTo(key, iv, src, n) ==
    IF n = 0 THEN <<>>
    ELSE LET prev == CBCEncryptTo(key, iv, src, n - 1)
             chain == IF n = 1 THEN iv ELSE BlockAt(prev, n - 1)
         IN  prev \o EncryptBlock(key, XorBytes(BlockAt(src, n), chain))
CBCEncrypt(key, iv, src) == CBCEncryptTo(key, iv, src, NumBlocks(src))

\* cipher.NewCBCDecrypter(c, iv).CryptBlocks(dst, src)
CBCDecrypt(key, iv, src) ==
    LET blk(n) == XorBytes(DecryptBlock(key, BlockAt(src, n)),
                           IF n = 1 THEN iv ELSE BlockAt(src, n - 1))
    IN  [i \in 1..Len(src) |-> blk(((i - 1) \div BlockSize) + 1)[((i - 1) % BlockSize) + 1]]

----------------------------------------------------------------------------
(* Type Descriptor Table and Envelope Codec. *)

ktAES == "AES"
ktHMAC_SHA1 == "HMAC_SHA1"
ktDSA_PRIV == "DSA_PRIV"
ktDSA_PUB == "DSA_PUB"
ktRSA_PRIV == "RSA_PRIV"
ktRSA_PUB == "RSA_PUB"

acceptableSizes(kt) ==
    CASE kt = ktAES -> {128, 192, 256}
      [] kt = ktHMAC_SHA1 -> {160}
      [] kt = ktDSA_PRIV -> {1024}
      [] kt = ktDSA_PUB -> {1024}
      [] kt = ktRSA_PRIV -> {1024, 2048, 4096}
      [] kt = ktRSA_PUB -> {1024, 2048, 4096}

defaultSize(kt) ==
    CASE kt = ktAES -> 128
      [] kt = ktHMAC_SHA1 -> 160
      [] kt = ktDSA_PRIV -> 1024
      [] kt = ktDSA_PUB -> 1024
      [] kt = ktRSA_PRIV -> 4096
      [] kt = ktRSA_PUB -> 4096

isAcceptableSize(kt, size) == size \in acceptableSizes(kt)

\* PKCS#5/7: 1..blocksize bytes, each holding the pad length
pkcs5pad(data, blocksize) ==
    LET pad == blocksize - (Len(data) % blocksize)
    IN  data \o [i \in 1..pad |-> pad]

\* The last pad bytes of d are a PKCS#5/7 padding
WellPadded(d) ==
    /\ Len(d) > 0
    /\ LET pad == d[Len(d)]
       IN  /\ pad \in 1..BlockSize
           /\ pad <= Len(d)
           /\ \A i \in (Len(d) - pad + 1)..Len(d) : d[i] = pad

\* Padding removal as the source has it: the last byte is trusted as the pad
\* length and that many bytes are cut, with no check of the padding; a length
\* the slice cannot hold is an out-of-range slice.
pkcs5unpad(data) ==
    IF Len(data) = 0 THEN Ok(data)
    ELSE LET pad == data[Len(data)]
         IN  IF pad > Len(data) THEN Panic("slice bounds out of range")
             ELSE Ok(Slice(data, 0, Len(data) - pad))

uint32be(n) == <<(n \div 16777216) % 256, (n \div 65536) % 256, (n \div 256) % 256, n % 256>>

noKey == [type |-> "none"]

----------------------------------------------------------------------------
(* MAC Key. *)

hmacKey_Sign(hm, msg) == Ok(hmacSha1(hm, msg))

\* hmacKey_Verify comparing only the first byte of the tag
hmacKey_VerifyFirstByte(hm, msg, signature) ==
    [ok |-> Len(signature) > 0 /\ hmacSha1(hm, msg)[1] = signature[1], err |-> "nil"]

hmacKey_Verify(hm, msg, signature) ==
    [ok |-> ConstantTimeCompare(hmacSha1(hm, msg), signature), err |-> "nil"]

generateHmacKey(seed) == randBytes(defaultSize(ktHMAC_SHA1) \div 8, seed + 1)

----------------------------------------------------------------------------
(* Symmetric Key. *)

generateAesKey(seed) ==
    [type |-> "aes", key |-> randBytes(defaultSize(ktAES) \div 8, seed), hmacKey |-> generateHmacKey(seed)]

aesKey_KeyID(k) ==
    Slice(sha1Sum(uint32be(Len(k.key)) \o k.key \o k.hmacKey), 0, 4)

\* makeHeader: the format version, then the key's 4-byte KeyID
makeHeader(keyID) == <<kzVersion>> \o keyID

\* aesKey_Encrypt computing the tag over the IV and the ciphertext only
aesKey_EncryptTagPayload(k, data, iv_bytes) ==
    LET padded == pkcs5pad(data, BlockSize)
    IN  IF ~NewCipherOk(k.key) THEN Err(KeySizeError)
        ELSE LET cipherBytes == CBCEncrypt(k.key, iv_bytes, padded)
                 h == makeHeader(aesKey_KeyID(k))
                 sig == hmacKey_Sign(k.hmacKey, iv_bytes \o cipherBytes)
             IN  Ok(h \o iv_bytes \o cipherBytes \o sig.data)

aesKey_Encrypt(k, data, iv_bytes) ==
    LET padded == pkcs5pad(data, BlockSize)
    IN  IF ~NewCipherOk(k.key) THEN Err(KeySizeError)
        ELSE LET cipherBytes == CBCEncrypt(k.key, iv_bytes, padded)
                 h == makeHeader(aesKey_KeyID(k))
                 msg == h \o iv_bytes \o cipherBytes
                 sig == hmacKey_Sign(k.hmacKey, msg)
             IN  IF sig.err # "nil" THEN Err(sig.err)
                 ELSE Ok(msg \o sig.data)

----------------------------------------------------------------------------
(* aesKey.Decrypt, step by step.  dpc is the statement the call is at. *)

\* the length check forgetting the tag
minCiphertextLenNoTag == kzHeaderLength + BlockSize

minCiphertextLen == kzHeaderLength + BlockSize + hmacSigLength

\* line 198: the length check
DecryptCheckLen ==
    /\ dpc = "checklen"
    /\ dLog' = Append(dLog, "checklen")
    /\ IF Len(dIn) < minCiphertextLen
       THEN dpc' = "done" /\ dOut' = Err(ErrShortCiphertext)
       ELSE dpc' = "verify" /\ dOut' = dOut
    /\ UNCHANGED <<ak, ePlain, eIv, eOut, dIn, dPlain, loadVars, rsaVars>>

\* DecryptVerify failing only on an error of Verify, not on a mismatch
DecryptVerifyErrOnly ==
    /\ dpc = "verify"
    /\ dLog' = Append(dLog, "verify")
    /\ LET msg == Slice(dIn, 0, Len(dIn) - hmacSigLength)
           sig == Slice(dIn, Len(dIn) - hmacSigLength, Len(dIn))
           v == hmacKey_Verify(ak.hmacKey, msg, sig)
       IN  IF v.err # "nil"
           THEN dpc' = "done" /\ dOut' = Err(v.err)
           ELSE dpc' = "newcipher" /\ dOut' = dOut
    /\ UNCHANGED <<ak, ePlain, eIv, eOut, dIn, dPlain, loadVars, rsaVars>>

\* lines 202-210: split off the tag and verify it over what precedes it
DecryptVerify ==
    /\ dpc = "verify"
    /\ dLog' = Append(dLog, "verify")
    /\ LET msg == Slice(dIn, 0, Len(dIn) - hmacSigLength)
           sig == Slice(dIn, Len(dIn) - hmacSigLength, Len(dIn))
           v == hmacKey_Verify(ak.hmacKey, msg, sig)
       IN  IF ~v.ok \/ v.err # "nil"
           THEN /\ dpc' = "done"
                /\ dOut' = Err(IF v.err = "nil" THEN ErrInvalidSignature ELSE v.err)
           ELSE dpc' = "newcipher" /\ dOut' = dOut
    /\ UNCHANGED <<ak, ePlain, eIv, eOut, dIn, dPlain, loadVars, rsaVars>>

\* lines 212-217: take the IV, build the cipher
DecryptNewCipher ==
    /\ dpc = "newcipher"
    /\ dLog' = Append(dLog, "newcipher")
    /\ IF ~NewCipherOk(ak.key)
       THEN dpc' = "done" /\ dOut' = Err(KeySizeError)
       ELSE dpc' = "cbc" /\ dOut' = dOut
    /\ UNCHANGED <<ak, ePlain, eIv, eOut, dIn, dPlain, loadVars, rsaVars>>

\* DecryptCBC taking the IV from the start of the input, not after the header
DecryptCBCHeaderIv ==
    /\ dpc = "cbc"
    /\ dLog' = Append(dLog, "cbc")
    /\ LET iv_bytes == Slice(dIn, 0, BlockSize)
           src == Slice(dIn, kzHeaderLength + BlockSize, Len(dIn) - hmacSigLength)
       IN  IF Len(src) % BlockSize # 0
           THEN /\ dpc' = "done"
                /\ dOut' = Panic("crypto/cipher: input not full blocks")
                /\ dPlain' = dPlain
           ELSE /\ dpc' = "unpad"
                /\ dPlain' = CBCDecrypt(ak.key, iv_bytes, src)
                /\ dOut' = dOut
    /\ UNCHANGED <<ak, ePlain, eIv, eOut, dIn, loadVars, rsaVars>>

\* lines 219-223: CBC-decrypt what lies between the IV and the tag
DecryptCBC ==
    /\ dpc = "cbc"
    /\ dLog' = Append(dLog, "cbc")
    /\ LET iv_bytes == Slice(dIn, kzHeaderLength, kzHeaderLength + BlockSize)
           src == Slice(dIn, kzHeaderLength + BlockSize, Len(dIn) - hmacSigLength)
       IN  IF Len(src) % BlockSize # 0
           THEN /\ dpc' = "done"
                /\ dOut' = Panic("crypto/cipher: input not full blocks")
                /\ dPlain' = dPlain
           ELSE /\ dpc' = "unpad"
                /\ dPlain' = CBCDecrypt(ak.key, iv_bytes, src)
                /\ dOut' = dOut
    /\ UNCHANGED <<ak, ePlain, eIv, eOut, dIn, loadVars, rsaVars>>

\* lines 225-227: strip the padding and return (plainBytes, nil)
DecryptUnpad ==
    /\ dpc = "unpad"
    /\ dLog' = Append(dLog, "unpad")
    /\ dpc' = "done"
    /\ dOut' = pkcs5unpad(dPlain)
    /\ UNCHANGED <<ak, ePlain, eIv, eOut, dIn, dPlain, loadVars, rsaVars>>

----------------------------------------------------------------------------
(* Serialized key records and their decoding. *)

\* A web-safe base64 string is the sequence of its characters' alphabet
\* indices 0..63; NotB64 is a character outside the alphabet.
NotB64 == 64

RECURSIVE decodeSextets(_, _)
decodeSextets(str, n) ==
    IF n < 2 THEN <<>>
    ELSE IF n % 4 = 2
         THEN decodeSextets(str, n - 2)
                \o <<(str[n - 1] * 4 + str[n] \div 16) % 256>>
    ELSE IF n % 4 = 3
         THEN decodeSextets(str, n - 3)
                \o <<(str[n - 2] * 4 + str[n - 1] \div 16) % 256,
                     ((str[n - 1] % 16) * 16 + str[n] \div 4) % 256>>
    ELSE decodeSextets(str, n - 4)
                \o <<(str[n - 3] * 4 + str[n - 2] \div 16) % 256,
                     ((str[n - 2] % 16) * 16 + str[n - 1] \div 4) % 256,
                     ((str[n - 1] % 4) * 64 + str[n]) % 256>>

\* decodeWeb64String: unpadded URL-safe base64 to bytes, or a decoding error
decodeWeb64String(str) ==
    IF (\E i \in 1..Len(str) : str[i] \notin 0..63) \/ Len(str) % 4 = 1
    THEN [data |-> <<>>, err |-> "base64.CorruptInputError"]
    ELSE [data |-> decodeSextets(str, Len(str)), err |-> "nil"]

\* big.NewInt(0).SetBytes(b): the big-endian unsigned integer
RECURSIVE SetBytes(_, _)
SetBytes(b, n) == IF n = 0 THEN 0 ELSE 256 * SetBytes(b, n - 1) + b[n]
bigInt(b) == SetBytes(b, Len(b))

\* The zero values of the JSON structs (lines 46-49, 64-69, 284-300, 473-493)
hmacKeyJSON == [hmacKeyString |-> <<>>, size |-> 0]
aesKeyJSON == [aesKeyString |-> <<>>, size |-> 0, hmacKey |-> hmacKeyJSON]
dsaPublicKeyJSON == [Q |-> <<>>, P |-> <<>>, Y |-> <<>>, G |-> <<>>, size |-> 0]
dsaKeyJSON == [publicKey |-> dsaPublicKeyJSON, size |-> 0, x |-> <<>>]
rsaPublicKeyJSON == [modulus |-> <<>>, publicExponent |-> <<>>, size |-> 0]
rsaKeyJSON ==
    [crtCoefficient |-> <<>>, primeExponentP |-> <<>>, primeExponentQ |-> <<>>,
     primeP |-> <<>>, primeQ |-> <<>>, privateExponent |-> <<>>,
     publicKey |-> rsaPublicKeyJSON, size |-> 0]

\* json.Unmarshal([]byte(s), &v) with its error dropped: v gets the record's
\* fields, or keeps its zero values when the text is not JSON.
Unmarshal(s, v) == IF s.json THEN s.fields ELSE v

\* What one pass of a loader's loop body gives: an error, or the key
failWith(e) == [err |-> e, key |-> noKey]
loaded(k) == [err |-> "nil", key |-> k]

\* newAesKeys, loop body (lines 127-154); g is what r.GetKey returned
aesVersion(g) ==
    IF g.err # "nil" THEN failWith(ErrBase64Decoding)
    ELSE LET aesjson == Unmarshal(g.s, aesKeyJSON)
             k == decodeWeb64String(aesjson.aesKeyString)
             h == decodeWeb64String(aesjson.hmacKey.hmacKeyString)
         IN  IF ~isAcceptableSize(ktAES, aesjson.size) THEN failWith(ErrInvalidKeySize)
             ELSE IF k.err # "nil" THEN failWith(ErrBase64Decoding)
             ELSE IF ~isAcceptableSize(ktHMAC_SHA1, aesjson.hmacKey.size)
                  THEN failWith(ErrInvalidKeySize)
             ELSE IF h.err # "nil" THEN failWith(ErrBase64Decoding)
             ELSE loaded([type |-> "aes", key |-> k.data, hmacKey |-> h.data])

\* newHmacKeys, loop body (lines 235-252)
hmacVersion(g) ==
    IF g.err # "nil" THEN failWith(g.err)
    ELSE LET hmacjson == Unmarshal(g.s, hmacKeyJSON)
             k == decodeWeb64String(hmacjson.hmacKeyString)
         IN  IF ~isAcceptableSize(ktHMAC_SHA1, hmacjson.size)
                  THEN failWith(ErrInvalidKeySize)
             ELSE IF k.err # "nil" THEN failWith(ErrBase64Decoding)
             ELSE loaded([type |-> "hmac", key |-> k.data])

\* the first of the strings strs that does not decode, 0 when all do
RECURSIVE firstBad(_, _)
firstBad(strs, n) ==
    IF n = 0 THEN 0
    ELSE LET before == firstBad(strs, n - 1)
         IN  IF before # 0 THEN before
             ELSE IF decodeWeb64String(strs[n]).err # "nil" THEN n ELSE 0

num(str) == bigInt(decodeWeb64String(str).data)

\* newDsaPublicKeys, loop body (lines 312-348)
dsaPublicVersion(g) ==
    IF g.err # "nil" THEN failWith(g.err)
    ELSE LET dsajson == Unmarshal(g.s, dsaPublicKeyJSON)
         IN  IF ~isAcceptableSize(ktDSA_PUB, dsajson.size) THEN failWith(ErrInvalidKeySize)
             ELSE IF firstBad(<<dsajson.Y, dsajson.G, dsajson.P, dsajson.Q>>, 4) # 0
                  THEN failWith(ErrBase64Decoding)
             ELSE loaded([type |-> "dsaPublic",
                          Y |-> num(dsajson.Y), G |-> num(dsajson.G),
                          P |-> num(dsajson.P), Q |-> num(dsajson.Q)])

\* newDsaKeys, loop body (lines 359-405)
dsaVersion(g) ==
    IF g.err # "nil" THEN failWith(g.err)
    ELSE LET dsajson == Unmarshal(g.s, dsaKeyJSON)
             pub == dsajson.publicKey
         IN  IF ~isAcceptableSize(ktDSA_PRIV, dsajson.size)
                  \/ ~isAcceptableSize(ktDSA_PUB, pub.size)
             THEN failWith(ErrInvalidKeySize)
             ELSE IF firstBad(<<dsajson.x, pub.Y, pub.G, pub.P, pub.Q>>, 5) # 0
                  THEN failWith(ErrBase64Decoding)
             ELSE loaded([type |-> "dsa", X |-> num(dsajson.x),
                          Y |-> num(pub.Y), G |-> num(pub.G),
                          P |-> num(pub.P), Q |-> num(pub.Q),
                          publicKey |-> [Y |-> num(pub.Y), G |-> num(pub.G),
                                         P |-> num(pub.P), Q |-> num(pub.Q)]])

\* newRsaPublicKeys, loop body (lines 528-552)
rsaPublicVersion(g) ==
    IF g.err # "nil" THEN failWith(g.err)
    ELSE LET rsajson == Unmarshal(g.s, rsaPublicKeyJSON)
         IN  IF ~isAcceptableSize(ktRSA_PUB, rsajson.size) THEN failWith(ErrInvalidKeySize)
             ELSE IF firstBad(<<rsajson.modulus, rsajson.publicExponent>>, 2) # 0
                  THEN failWith(ErrBase64Decoding)
             ELSE loaded([type |-> "rsaPublic",
                          N |-> num(rsajson.modulus), E |-> num(rsajson.publicExponent)])

\* newRsaKeys, loop body (lines 563-628)
rsaVersion(g) ==
    IF g.err # "nil" THEN failWith(g.err)
    ELSE LET rsajson == Unmarshal(g.s, rsaKeyJSON)
             pub == rsajson.publicKey
         IN  IF ~isAcceptableSize(ktRSA_PRIV, rsajson.size)
                  \/ ~isAcceptableSize(ktRSA_PUB, pub.size)
             THEN failWith(ErrInvalidKeySize)
             ELSE IF firstBad(<<rsajson.crtCoefficient, rsajson.primeExponentP,
                                rsajson.primeExponentQ, rsajson.primeP, rsajson.primeQ,
                                rsajson.privateExponent, pub.modulus,
                                pub.publicExponent>>, 8) # 0
                  THEN failWith(ErrBase64Decoding)
             ELSE loaded([type |-> "rsa",
                          Qinv |-> num(rsajson.crtCoefficient),
                          Dp |-> num(rsajson.primeExponentP),
                          Dq |-> num(rsajson.primeExponentQ),
                          Primes |-> <<num(rsajson.primeP), num(rsajson.primeQ)>>,
                          D |-> num(rsajson.privateExponent),
                          N |-> num(pub.modulus), E |-> num(pub.publicExponent),
                          publicKey |-> [N |-> num(pub.modulus),
                                         E |-> num(pub.publicExponent)]])

----------------------------------------------------------------------------
(* The key-record source: what r.GetKey may return to each loader. *)

Seeds == 1..NumSeeds

Web64(n, seed) == [i \in 1..n |-> (11 * seed + 7 * i) % 64]

\* strings that are not unpadded web-safe base64: a character outside the
\* alphabet, a length no encoding has
BadStrings == {<<3, NotB64, 9>>, <<7>>}

\* a declared size: the type's default, or one outside its acceptable set
SizeChoices(kt) == {defaultSize(kt), defaultSize(kt) + 1}

\* strs with entry i replaced by bad, i = 0 leaving it whole
spoil(strs, i, bad) == [j \in 1..Len(strs) |-> IF j = i THEN bad ELSE strs[j]]

StringChoices(n, lens) ==
    { [j \in 1..n |-> Web64(lens[j], seed + j)] : seed \in Seeds }
      \cup { spoil([j \in 1..n |-> Web64(lens[j], j)], i, bad) : i \in 1..n, bad \in BadStrings }

\* AES key strings of 16 bytes and of 2 bytes, MAC key strings of 20 bytes
AesRecords ==
    { [aesKeyString |-> st[1], size |-> sz,
       hmacKey |-> [hmacKeyString |-> st[2], size |-> hsz]] :
         st \in StringChoices(2, <<22, 27>>) \cup StringChoices(2, <<3, 27>>),
         sz \in SizeChoices(ktAES), hsz \in SizeChoices(ktHMAC_SHA1) }
      \cup { [aesKeyString |-> <<NotB64>>, size |-> sz,
              hmacKey |-> [hmacKeyString |-> <<NotB64>>, size |-> hsz]] :
                sz \in SizeChoices(ktAES), hsz \in SizeChoices(ktHMAC_SHA1) }

HmacRecords ==
    { [hmacKeyString |-> st[1], size |-> sz] :
         st \in StringChoices(1, <<27>>), sz \in SizeChoices(ktHMAC_SHA1) }

DsaPublicRecords ==
    { [Q |-> st[4], P |-> st[3], Y |-> st[1], G |-> st[2], size |-> sz] :
         st \in StringChoices(4, <<3, 3, 3, 3>>), sz \in SizeChoices(ktDSA_PUB) }

DsaRecords ==
    { [publicKey |-> [Q |-> st[5], P |-> st[4], Y |-> st[2], G |-> st[3], size |-> psz],
       size |-> sz, x |-> st[1]] :
         st \in StringChoices(5, <<3, 3, 3, 3, 3>>),
         sz \in SizeChoices(ktDSA_PRIV), psz \in SizeChoices(ktDSA_PUB) }

RsaPublicRecords ==
    { [modulus |-> st[1], publicExponent |-> st[2], size |-> sz] :
         st \in StringChoices(2, <<3, 3>>), sz \in SizeChoices(ktRSA_PUB) }

RsaRecords ==
    { [crtCoefficient |-> st[1], primeExponentP |-> st[2], primeExponentQ |-> st[3],
       primeP |-> st[4], primeQ |-> st[5], privateExponent |-> st[6],
       publicKey |-> [modulus |-> st[7], publicExponent |-> st[8], size |-> psz],
       size |-> sz] :
         st \in StringChoices(8, <<3, 3, 3, 3, 3, 3, 3, 3>>),
         sz \in SizeChoices(ktRSA_PRIV), psz \in SizeChoices(ktRSA_PUB) }

Loaders == {"aes", "hmac", "dsaPublic", "dsa", "rsaPublic", "rsa"}

Records(kind) ==
    CASE kind = "aes" -> AesRecords
      [] kind = "hmac" -> HmacRecords
      [] kind = "dsaPublic" -> DsaPublicRecords
      [] kind = "dsa" -> DsaRecords
      [] kind = "rsaPublic" -> RsaPublicRecords
      [] kind = "rsa" -> RsaRecords

\* the errors of the source itself
SourceErrors == {"ErrNoSuchKeyVersion", "os.PathError"}

noRecord == [json |-> FALSE, fields |-> <<>>]

\* r.GetKey(v): a record, a text that is not JSON, or an error of the source
GetKeyResults(kind) ==
    { [s |-> [json |-> TRUE, fields |-> f], err |-> "nil"] : f \in Records(kind) }
      \cup { [s |-> noRecord, err |-> "nil"] }
      \cup { [s |-> noRecord, err |-> e] : e \in SourceErrors }

----------------------------------------------------------------------------
(* The six loaders: the loop over km.Versions, one pass per step. *)

emptyMap == <<>>
mapPut(m, v, k) == [x \in (DOMAIN m) \cup {v} |-> IF x = v THEN k ELSE m[x]]

\* loopPass returning the map built so far together with the error
loopPassPartial(g, r) ==
    /\ lpc = "loop"
    /\ IF lIdx = Len(lVersions)
       THEN /\ lpc' = "done"
            /\ lOut' = [keys |-> lKeys, isnil |-> FALSE, err |-> "nil"]
            /\ UNCHANGED <<lIdx, lKeys, lFetched, lRec>>
       ELSE /\ lFetched' = Append(lFetched, lVersions[lIdx + 1])
            /\ lRec' = g
            /\ IF r.err # "nil"
               THEN /\ lpc' = "done"
                    /\ lOut' = [keys |-> lKeys, isnil |-> FALSE, err |-> r.err]
                    /\ UNCHANGED <<lIdx, lKeys>>
               ELSE /\ lKeys' = mapPut(lKeys, lVersions[lIdx + 1], r.key)
                    /\ lIdx' = lIdx + 1
                    /\ UNCHANGED <<lpc, lOut>>
    /\ UNCHANGED <<lKind, lVersions, symVars, rsaVars>>

\* One pass of `for _, kv := range km.Versions`, r the outcome of its body for
\* the record g: an error returns (nil, err), a key goes into the map; after
\* the last version the loader returns (keys, nil).
loopPass(g, r) ==
    /\ lpc = "loop"
    /\ IF lIdx = Len(lVersions)
       THEN /\ lpc' = "done"
            /\ lOut' = [keys |-> lKeys, isnil |-> FALSE, err |-> "nil"]
            /\ UNCHANGED <<lIdx, lKeys, lFetched, lRec>>
       ELSE /\ lFetched' = Append(lFetched, lVersions[lIdx + 1])
            /\ lRec' = g
            /\ IF r.err # "nil"
               THEN /\ lpc' = "done"
                    /\ lOut' = [keys |-> emptyMap, isnil |-> TRUE, err |-> r.err]
                    /\ UNCHANGED <<lIdx, lKeys>>
               ELSE /\ lKeys' = mapPut(lKeys, lVersions[lIdx + 1], r.key)
                    /\ lIdx' = lIdx + 1
                    /\ UNCHANGED <<lpc, lOut>>
    /\ UNCHANGED <<lKind, lVersions, symVars, rsaVars>>

newAesKeys ==
    lKind = "aes" /\ \E g \in GetKeyResults("aes") : loopPass(g, aesVersion(g))

newHmacKeys ==
    lKind = "hmac" /\ \E g \in GetKeyResults("hmac") : loopPass(g, hmacVersion(g))

newDsaPublicKeys ==
    lKind = "dsaPublic"
      /\ \E g \in GetKeyResults("dsaPublic") : loopPass(g, dsaPublicVersion(g))

newDsaKeys ==
    lKind = "dsa" /\ \E g \in GetKeyResults("dsa") : loopPass(g, dsaVersion(g))

newRsaPublicKeys ==
    lKind = "rsaPublic"
      /\ \E g \in GetKeyResults("rsaPublic") : loopPass(g, rsaPublicVersion(g))

newRsaKeys ==
    lKind = "rsa" /\ \E g \in GetKeyResults("rsa") : loopPass(g, rsaVersion(g))

RECURSIVE SeqsUpTo(_, _)
SeqsUpTo(S, n) ==
    IF n = 0 THEN {<<>>}
    ELSE LET shorter == SeqsUpTo(S, n - 1)
         IN  shorter \cup { Append(q, x) : q \in shorter, x \in S }

VersionLists == SeqsUpTo(1..NumVersions, MaxVersions)

\* A caller hands a loader the version list of the key set's metadata
CallLoader ==
    /\ lpc = "idle"
    /\ \E kind \in Loaders, versions \in VersionLists :
          /\ lKind' = kind
          /\ lVersions' = versions
    /\ lpc' = "loop"
    /\ lIdx' = 0
    /\ lKeys' = emptyMap
    /\ lFetched' = <<>>
    /\ UNCHANGED <<lRec, lOut, symVars, rsaVars>>

LoadInit ==
    /\ lKind = "none"
    /\ lVersions = <<>>
    /\ lIdx = 0
    /\ lKeys = emptyMap
    /\ lFetched = <<>>
    /\ lRec = [s |-> noRecord, err |-> "nil"]
    /\ lpc = "idle"
    /\ lOut = [keys |-> emptyMap, isnil |-> TRUE, err |-> "nil"]

LoadNext ==
    \/ CallLoader
    \/ newAesKeys
    \/ newHmacKeys
    \/ newDsaPublicKeys
    \/ newDsaKeys
    \/ newRsaPublicKeys
    \/ newRsaKeys

----------------------------------------------------------------------------
(* The callers of the symmetric key: how the key is built, one Encrypt      *)
(* call, and the inputs Decrypt is called with.                             *)

Fills == {1, 2}
\* the empty plaintext, one byte, the 11 bytes of "hello world", one byte short
\* of a block, a whole block, and every length past one block
PlainLens == {0, 1, 11, BlockSize - 1, BlockSize} \cup ((BlockSize + 1)..MaxPlainLen)
Plaintexts == { [i \in 1..n |-> (5 * i + 40 * f) % 256] : n \in PlainLens, f \in Fills }
IVs == { randBytes(BlockSize, 100 + s) : s \in {1, 2} }

\* the last byte a forged, correctly tagged envelope decrypts to
LastBytes == {0, 1, 2, BlockSize, BlockSize + 1, 255}

\* the alterations of one byte
Deltas == {1, 128}

callDecrypt(data) ==
    /\ ak.type = "aes"
    /\ dpc = "idle"
    /\ dIn' = data
    /\ dpc' = "checklen"
    /\ dLog' = <<>>
    /\ dPlain' = <<>>
    /\ dOut' = Pending
    /\ UNCHANGED <<ak, ePlain, eIv, eOut, loadVars, rsaVars>>

\* generateAesKey
Generate ==
    /\ ak.type = "none"
    /\ \E seed \in Seeds : ak' = generateAesKey(seed)
    /\ UNCHANGED <<ePlain, eIv, eOut, dIn, dpc, dLog, dPlain, dOut, loadVars, rsaVars>>

\* the key of a one-version key set, as newAesKeys loads it
UseLoadedKey ==
    /\ ak.type = "none"
    /\ \E g \in GetKeyResults("aes") :
          /\ aesVersion(g).err = "nil"
          /\ ak' = aesVersion(g).key
    /\ UNCHANGED <<ePlain, eIv, eOut, dIn, dpc, dLog, dPlain, dOut, loadVars, rsaVars>>

Encrypt ==
    /\ ak.type = "aes"
    /\ eOut.kind = "none"
    /\ dpc = "idle"
    /\ \E p \in Plaintexts, iv \in IVs :
          /\ ePlain' = p
          /\ eIv' = iv
          /\ eOut' = aesKey_Encrypt(ak, p, iv)
    /\ UNCHANGED <<ak, dIn, dpc, dLog, dPlain, dOut, loadVars, rsaVars>>

Encrypted == eOut.kind = "return" /\ eOut.err = "nil"

\* Decrypt of what Encrypt returned
DecryptEnvelope ==
    /\ dpc = "idle"
    /\ Encrypted
    /\ callDecrypt(eOut.data)

\* Decrypt of an envelope with one position altered
DecryptAltered ==
    /\ dpc = "idle"
    /\ Encrypted
    /\ \E i \in 1..Len(eOut.data), d \in Deltas :
          callDecrypt([eOut.data EXCEPT ![i] = (@ + d) % 256])

\* Decrypt of a prefix of an envelope, the empty input included
DecryptPrefix ==
    /\ dpc = "idle"
    /\ Encrypted
    /\ \E n \in 0..(Len(eOut.data) - 1) : callDecrypt(Slice(eOut.data, 0, n))

\* Decrypt of an envelope the key holder tagged over content that is not a
\* padded plaintext: the padded plaintext with its last byte replaced, or
\* with its last block, or its last byte, cut off
DecryptTagged ==
    /\ dpc = "idle"
    /\ Encrypted
    /\ \E b \in LastBytes, cut \in {0, 1, BlockSize} :
          LET padded == pkcs5pad(ePlain, BlockSize)
              raw == IF cut = 0 THEN [padded EXCEPT ![Len(padded)] = b]
                     ELSE Slice(padded, 0, Len(padded) - cut)
              whole == Slice(raw, 0, NumBlocks(raw) * BlockSize)
              rest == Slice(raw, NumBlocks(raw) * BlockSize, Len(raw))
              msg == makeHeader(aesKey_KeyID(ak)) \o eIv
                       \o CBCEncrypt(ak.key, eIv, whole) \o rest
          IN  callDecrypt(msg \o hmacSha1(ak.hmacKey, msg))

\* the caller takes the result; the key and the envelope stay
DecryptReturn ==
    /\ dpc = "done"
    /\ dpc' = "idle"
    /\ dIn' = <<>>
    /\ dLog' = <<>>
    /\ dPlain' = <<>>
    /\ dOut' = Pending
    /\ UNCHANGED <<ak, ePlain, eIv, eOut, loadVars, rsaVars>>

SymInit ==
    /\ ak = noKey
    /\ ePlain = <<>>
    /\ eIv = <<>>
    /\ eOut = Pending
    /\ dIn = <<>>
    /\ dpc = "idle"
    /\ dLog = <<>>
    /\ dPlain = <<>>
    /\ dOut = Pending

SymNext ==
    \/ Generate
    \/ UseLoadedKey
    \/ Encrypt
    \/ DecryptEnvelope
    \/ DecryptAltered
    \/ DecryptPrefix
    \/ DecryptTagged
    \/ DecryptCheckLen
    \/ DecryptVerify
    \/ DecryptNewCipher
    \/ DecryptCBC
    \/ DecryptUnpad
    \/ DecryptReturn

----------------------------------------------------------------------------
(* RSA key pair: Encrypt and Decrypt. *)

\* An RSA key of the smallest acceptable size: the modulus, the public
\* exponent, and the bytes the private operation undoes the public one with.
rsaBits == CHOOSE n \in acceptableSizes(ktRSA_PRIV) : \A m \in acceptableSizes(ktRSA_PRIV) : n <= m
rsaKey == [N |-> randBytes(rsaBits \div 8, 7), E |-> <<1, 0, 1>>]

\* rsaPublicKey.KeyID (lines 500-517)
rsaPublicKey_KeyID(rk) ==
    Slice(sha1Sum(uint32be(Len(rk.N)) \o rk.N \o uint32be(Len(rk.E)) \o rk.E), 0, 4)

\* the length in bytes of the modulus, and of a SHA-1 digest
modulusLen(rk) == Len(rk.N)
hashLen == Len(sha1Sum(<<>>))

\* the RSA permutation of modulusLen-byte blocks and its inverse
rsaPublicOp(rk, em) == [i \in 1..Len(em) |-> (em[i] + rk.N[i]) % 256]
rsaPrivateOp(rk, c) == [i \in 1..Len(c) |-> (c[i] - rk.N[i]) % 256]

\* the index of the first nonzero byte of s after position from, 0 if none
firstNonZero(s, from) ==
    LET nz == { i \in (from + 1)..Len(s) : s[i] # 0 }
    IN  IF nz = {} THEN 0 ELSE CHOOSE i \in nz : \A j \in nz : i <= j

\* rsa.EncryptOAEP(sha1.New(), rand.Reader, pub, msg, nil):
\* EM = 00 || seed || lHash || 00..00 || 01 || msg, then the public operation
EncryptOAEP(rk, msg, seed) ==
    LET k == modulusLen(rk)
    IN  IF Len(msg) > k - 2 * hashLen - 2 THEN Err("rsa.ErrMessageTooLong")
        ELSE Ok(rsaPublicOp(rk, <<0>> \o randBytes(hashLen, seed) \o sha1Sum(<<>>)
                                  \o [i \in 1..(k - Len(msg) - 2 * hashLen - 2) |-> 0]
                                  \o <<1>> \o msg))

\* rsa.DecryptOAEP(sha1.New(), rand.Reader, priv, ciphertext, nil): a
\* ciphertext longer than the modulus, or one that does not decode, is
\* rsa.ErrDecryption; a shorter one counts as left-padded with zeros
DecryptOAEP(rk, ciphertext) ==
    LET k == modulusLen(rk)
    IN  IF Len(ciphertext) > k THEN Err("rsa.ErrDecryption")
        ELSE LET c == [i \in 1..(k - Len(ciphertext)) |-> 0] \o ciphertext
                 em == rsaPrivateOp(rk, c)
                 one == firstNonZero(em, 1 + 2 * hashLen)
             IN  IF em[1] # 0
                      \/ Slice(em, 1 + hashLen, 1 + 2 * hashLen) # sha1Sum(<<>>)
                      \/ one = 0 \/ em[IF one = 0 THEN 1 ELSE one] # 1
                 THEN Err("rsa.ErrDecryption")
                 ELSE Ok(Slice(em, one, k))

\* rsaPublicKey.Encrypt (lines 657-671); rsaKey.Encrypt delegates to it
rsaPublicKey_Encrypt(rk, msg, seed) ==
    LET s == EncryptOAEP(rk, msg, seed)
    IN  IF s.err # "nil" THEN Err(s.err)
        ELSE Ok(makeHeader(rsaPublicKey_KeyID(rk)) \o s.data)

\* rsaKey.Decrypt (lines 677-686): msg[kzHeaderLength:] is an out-of-range
\* slice when msg is shorter than the header
rsaKey_Decrypt(rk, msg) ==
    IF kzHeaderLength > Len(msg) THEN Panic("slice bounds out of range")
    ELSE LET s == DecryptOAEP(rk, Slice(msg, kzHeaderLength, Len(msg)))
         IN  IF s.err # "nil" THEN Err(s.err) ELSE Ok(s.data)

RsaMessages == { [i \in 1..n |-> (3 * i + 9) % 256] : n \in {0, 1, MaxPlainLen} }
RsaEnvelopes == { rsaPublicKey_Encrypt(rsaKey, m, seed).data : m \in RsaMessages, seed \in Seeds }

callRsaDecrypt(msg) ==
    /\ rpc = "idle"
    /\ rIn' = msg
    /\ rpc' = "call"
    /\ rOut' = Pending
    /\ UNCHANGED <<symVars, loadVars>>

\* Decrypt of what Encrypt returned
RsaDecryptEnvelope == rOut = Pending /\ \E e \in RsaEnvelopes : callRsaDecrypt(e)

\* Decrypt of a prefix of an envelope, the empty input included
RsaDecryptPrefix ==
    rOut = Pending /\ \E e \in RsaEnvelopes : \E n \in 0..(Len(e) - 1) : callRsaDecrypt(Slice(e, 0, n))

\* Decrypt of an envelope with a byte appended or a byte altered
RsaDecryptAltered ==
    rOut = Pending /\ \E e \in RsaEnvelopes :
       \/ callRsaDecrypt(Append(e, 0))
       \/ \E i \in {1, kzHeaderLength + 1, Len(e)} :
             callRsaDecrypt([e EXCEPT ![i] = (@ + 1) % 256])

RsaDecrypt ==
    /\ rpc = "call"
    /\ rpc' = "done"
    /\ rOut' = rsaKey_Decrypt(rsaKey, rIn)
    /\ UNCHANGED <<rIn, symVars, loadVars>>

RsaInit ==
    /\ rIn = <<>>
    /\ rpc = "idle"
    /\ rOut = Pending

RsaNext ==
    \/ RsaDecryptEnvelope
    \/ RsaDecryptPrefix
    \/ RsaDecryptAltered
    \/ RsaDecrypt

----------------------------------------------------------------------------
(* Specifications. *)

Init == SymInit /\ LoadInit /\ RsaInit

SpecSym == Init /\ [][SymNext]_vars

SpecLoad == Init /\ [][LoadNext]_vars

SpecRsa == Init /\ [][RsaNext]_vars

----------------------------------------------------------------------------
(* Properties of the symmetric key, checked under SpecSym. *)

\* the steps of Decrypt that decrypt
DecryptionSteps == {"newcipher", "cbc", "unpad"}

InLog(step) == \E i \in 1..Len(dLog) : dLog[i] = step

\* the last hmacSigLength bytes of the input are the MAC of all bytes before
TagVerifies ==
    /\ Len(dIn) >= hmacSigLength
    /\ hmacSha1(ak.hmacKey, Slice(dIn, 0, Len(dIn) - hmacSigLength))
         = Slice(dIn, Len(dIn) - hmacSigLength, Len(dIn))

LongEnough == Len(dIn) >= kzHeaderLength + BlockSize + hmacSigLength

\* C1: in a Decrypt call whose input passes the length check, every
\* decryption step (cipher construction with IV extraction, CBC decryption,
\* padding removal) comes after the verification of the tag over all bytes
\* before it and only when the tag verified; when the tag does not verify the
\* call returns ErrInvalidSignature and no plaintext, having performed no
\* decryption step.
C1_VerifyBeforeDecrypt ==
    (dpc # "idle" /\ LongEnough) =>
        /\ \A i \in 1..Len(dLog) :
              dLog[i] \in DecryptionSteps =>
                 /\ \E j \in 1..(i - 1) : dLog[j] = "verify"
                 /\ TagVerifies
        /\ dpc \in DecryptionSteps => (InLog("verify") /\ TagVerifies)
        /\ (dpc = "done" /\ ~TagVerifies) =>
              /\ dOut = Err(ErrInvalidSignature)
              /\ \A i \in 1..Len(dLog) : dLog[i] \notin DecryptionSteps

C1_Witness ==
    /\ dpc = "done" /\ LongEnough /\ ~TagVerifies
    /\ dLog = <<"checklen", "verify">>
    /\ dOut.err = ErrInvalidSignature /\ dOut.isnil

\* C2: Decrypt of what Encrypt returned for the plaintext p, under the same
\* key and whatever IV Encrypt drew, returns p and no error.
C2_RoundTrip ==
    (dpc = "done" /\ Encrypted /\ dIn = eOut.data) => dOut = Ok(ePlain)

C2_Witness ==
    /\ dpc = "done" /\ Encrypted /\ dIn = eOut.data
    /\ Len(ePlain) = BlockSize
    /\ dOut = Ok(ePlain)

\* the positions at which the input differs from the envelope
AlteredAt == { i \in 1..Len(dIn) : dIn[i] # eOut.data[i] }
Altered == Encrypted /\ Len(dIn) = Len(eOut.data) /\ Cardinality(AlteredAt) = 1

\* C3: Decrypt of an envelope with one position altered (in the header, the
\* IV, the ciphertext or the tag) returns ErrInvalidSignature and no
\* plaintext.
C3_TamperDetected ==
    (dpc = "done" /\ Altered) => dOut = Err(ErrInvalidSignature)

C3_Witness ==
    /\ dpc = "done" /\ Altered
    /\ AlteredAt = {Len(dIn)}
    /\ dOut = Err(ErrInvalidSignature)

\* C4: Decrypt of an input shorter than headerLength + 16 + 20 bytes returns
\* ErrShortCiphertext and no plaintext; it performs the length check and
\* nothing else, and does not panic.
C4_ShortInput ==
    (dpc # "idle" /\ Len(dIn) < kzHeaderLength + 16 + 20) =>
        /\ dpc \in {"checklen", "done"}
        /\ \A i \in 1..Len(dLog) : dLog[i] = "checklen"
        /\ dpc = "done" => dOut = Err(ErrShortCiphertext)

C4_Witness ==
    /\ dpc = "done" /\ dIn = <<>>
    /\ dLog = <<"checklen">>
    /\ dOut = Err(ErrShortCiphertext)

\* C8: Decrypt of an input whose tag verifies and whose CBC-decrypted content
\* does not end in a well-formed padding returns an error, never a nil error
\* with truncated or garbage plaintext.
C8_BadPaddingIsError ==
    (dpc = "done" /\ LongEnough /\ TagVerifies /\ InLog("unpad") /\ ~WellPadded(dPlain)) =>
        (dOut.kind = "return" /\ dOut.err # "nil")

\* C9: with a key length AES accepts, Encrypt returns header, 16-byte IV, the
\* CBC ciphertext of the padded plaintext and the 20-byte MAC of all bytes
\* before it: headerLength + 16 + 16 * (len(p) div 16 + 1) + 20 bytes.
C9_EnvelopeLayout ==
    (eOut.kind # "none" /\ dpc = "idle" /\ Len(ak.key) \in {16, 24, 32}) =>
        LET out == eOut.data
            n == Len(out)
        IN  /\ eOut = Ok(out)
            /\ n = kzHeaderLength + 16 + 16 * ((Len(ePlain) \div 16) + 1) + 20
            /\ Slice(out, 0, kzHeaderLength) = makeHeader(aesKey_KeyID(ak))
            /\ Slice(out, kzHeaderLength, kzHeaderLength + 16) = eIv
            /\ Slice(out, kzHeaderLength + 16, n - 20)
                 = CBCEncrypt(ak.key, eIv, pkcs5pad(ePlain, 16))
            /\ Slice(out, n - 20, n) = hmacSha1(ak.hmacKey, Slice(out, 0, n - 20))

C9_Witness ==
    /\ Encrypted
    /\ Len(ePlain) = 11
    /\ Len(eOut.data) = kzHeaderLength + 16 + 16 + 20

----------------------------------------------------------------------------
(* Properties of the loaders, checked under SpecLoad. *)

\* the declared size fields of the record a loader decodes, with their types
DeclaredSizes(kind, g) ==
    CASE kind = "aes" ->
            LET j == Unmarshal(g.s, aesKeyJSON)
            IN  {<<ktAES, j.size>>, <<ktHMAC_SHA1, j.hmacKey.size>>}
      [] kind = "hmac" -> {<<ktHMAC_SHA1, Unmarshal(g.s, hmacKeyJSON).size>>}
      [] kind = "dsaPublic" -> {<<ktDSA_PUB, Unmarshal(g.s, dsaPublicKeyJSON).size>>}
      [] kind = "dsa" ->
            LET j == Unmarshal(g.s, dsaKeyJSON)
            IN  {<<ktDSA_PRIV, j.size>>, <<ktDSA_PUB, j.publicKey.size>>}
      [] kind = "rsaPublic" -> {<<ktRSA_PUB, Unmarshal(g.s, rsaPublicKeyJSON).size>>}
      [] kind = "rsa" ->
            LET j == Unmarshal(g.s, rsaKeyJSON)
            IN  {<<ktRSA_PRIV, j.size>>, <<ktRSA_PUB, j.publicKey.size>>}

\* its key-bearing strings
KeyStrings(kind, g) ==
    CASE kind = "aes" ->
            LET j == Unmarshal(g.s, aesKeyJSON)
            IN  {j.aesKeyString, j.hmacKey.hmacKeyString}
      [] kind = "hmac" -> {Unmarshal(g.s, hmacKeyJSON).hmacKeyString}
      [] kind = "dsaPublic" ->
            LET j == Unmarshal(g.s, dsaPublicKeyJSON) IN {j.Y, j.G, j.P, j.Q}
      [] kind = "dsa" ->
            LET j == Unmarshal(g.s, dsaKeyJSON)
            IN  {j.x, j.publicKey.Y, j.publicKey.G, j.publicKey.P, j.publicKey.Q}
      [] kind = "rsaPublic" ->
            LET j == Unmarshal(g.s, rsaPublicKeyJSON) IN {j.modulus, j.publicExponent}
      [] kind = "rsa" ->
            LET j == Unmarshal(g.s, rsaKeyJSON)
            IN  {j.crtCoefficient, j.primeExponentP, j.primeExponentQ, j.primeP,
                 j.primeQ, j.privateExponent, j.publicKey.modulus,
                 j.publicKey.publicExponent}

NotFound(g) == g.err # "nil"
SizeViolation(kind, g) ==
    ~NotFound(g) /\ \E d \in DeclaredSizes(kind, g) : d[2] \notin acceptableSizes(d[1])
DecodeFailure(kind, g) ==
    ~NotFound(g) /\ \E str \in KeyStrings(kind, g) : decodeWeb64String(str).err # "nil"
InvalidVersion(kind, g) == NotFound(g) \/ SizeViolation(kind, g) \/ DecodeFailure(kind, g)

Fetching == lFetched # <<>>

\* C5: each loader fetches the versions in list order; it goes on only past
\* valid versions, and at the first invalid one (not found, size violation,
\* base64 failure) it returns an error and a nil map, not the versions loaded
\* so far, and fetches no later version; without an invalid version it
\* returns the map of all versions and no error.
C5_FailFast ==
    /\ lFetched = SubSeq(lVersions, 1, Len(lFetched))
    /\ (lpc = "loop" /\ Fetching) =>
          /\ ~InvalidVersion(lKind, lRec)
          /\ Len(lFetched) = lIdx
          /\ DOMAIN lKeys = { lVersions[i] : i \in 1..lIdx }
    /\ (lpc = "done" /\ Fetching /\ InvalidVersion(lKind, lRec)) =>
          /\ lOut.err # "nil"
          /\ lOut.isnil /\ lOut.keys = emptyMap
          /\ Len(lFetched) = lIdx + 1
    /\ (lpc = "done" /\ (~Fetching \/ ~InvalidVersion(lKind, lRec))) =>
          /\ lOut.err = "nil" /\ ~lOut.isnil
          /\ lFetched = lVersions
          /\ DOMAIN lOut.keys = { lVersions[i] : i \in 1..Len(lVersions) }

C5_Witness ==
    /\ lpc = "done" /\ InvalidVersion(lKind, lRec)
    /\ lIdx = 1 /\ lKeys # emptyMap
    /\ lFetched = lVersions
    /\ lOut.err # "nil" /\ lOut.isnil

\* C6: a loader given a record in which a declared size field is outside the
\* acceptable set of its type returns ErrInvalidKeySize and no map, whatever
\* the record's other fields hold.
C6_SizeGate ==
    (lpc = "done" /\ Fetching /\ SizeViolation(lKind, lRec)) =>
        (lOut.err = ErrInvalidKeySize /\ lOut.isnil)

\* C7: a loader whose source returned an error for a version returns that
\* error.
C7_SourceErrorSurfaced ==
    (lpc = "done" /\ Fetching /\ NotFound(lRec)) => lOut.err = lRec.err

----------------------------------------------------------------------------
(* Property of the RSA private key, checked under SpecRsa. *)

\* C10: RSA Decrypt of any input, the inputs shorter than the header
\* included, returns the OAEP plaintext of the bytes after the header or an
\* error; it does not panic.
C10_NoFault ==
    rpc = "done" =>
        /\ rOut.kind = "return"
        /\ rOut.err = "nil" =>
              rOut.data = DecryptOAEP(rsaKey, Slice(rIn, kzHeaderLength, Len(rIn))).data

====
